---- MODULE Spec2Model ----
(***************************************************************************)
(* accrua-rs: business-day rolling (calendar::Business) and day-count      *)
(* fractions (fixed_income::day_count_fraction).                           *)
(*                                                                         *)
(* A chrono::NaiveDate is modelled by its day number in the proleptic      *)
(* Gregorian calendar (0001-01-01 is day 1, a Monday), so that             *)
(* `day += Duration::days(1)` is +1 and `(end - start).num_days()` is      *)
(* end - start.  A rust_decimal::Decimal is modelled as an exact rational  *)
(* in lowest terms.                                                        *)
(***************************************************************************)
EXTENDS Integers, Sequences, FiniteSets

VARIABLES holidays, day, start, end, fn, result

vars == <<holidays, day, start, end, fn, result>>

(* ------------------------------ bounds -------------------------------- *)

\* first calendar year of the dates the model draws
FirstYear == 2023
\* number of consecutive calendar years the day-count inputs span
NumYears == 3
\* number of days of the (scaled-down) representable date range
NumDays == 12

(* ------------------------- program constants -------------------------- *)

NON_LEAP == 365
LEAP == 366
THREE_SIXTY == 360

(* --------------------------- Option values ---------------------------- *)

None == [tag |-> "None"]
Some(x) == [tag |-> "Some", val |-> x]
\* a panic of the running program (arithmetic overflow in a checked build)
Panic == [tag |-> "Panic"]
\* a path of a function body that ends without producing the declared value
NoValue == [tag |-> "NoValue"]
Bool(b) == [tag |-> "Bool", b |-> b]
Pending == [tag |-> "Pending"]

(* ----------------------------- calendar ------------------------------- *)

is_leap(year) == year % 4 = 0 /\ (year % 100 /= 0 \/ year % 400 = 0)

\* days of the years 1 .. y-1
DaysBeforeYear(y) ==
    365 * (y - 1) + ((y - 1) \div 4) - ((y - 1) \div 100) + ((y - 1) \div 400)

DaysInMonth(y, m) ==
    IF m = 2 THEN (IF is_leap(y) THEN 29 ELSE 28)
    ELSE IF m \in {4, 6, 9, 11} THEN 30 ELSE 31

RECURSIVE yearFrom(_, _)
yearFrom(n, y) == IF n > DaysBeforeYear(y + 1) THEN yearFrom(n, y + 1) ELSE y

year(n) == yearFrom(n, (n \div 366) + 1)

ordinal(n) == n - DaysBeforeYear(year(n))

RECURSIVE monthFrom(_, _, _)
monthFrom(y, ord, m) ==
    IF ord <= DaysInMonth(y, m) THEN m
    ELSE monthFrom(y, ord - DaysInMonth(y, m), m + 1)

month(n) == monthFrom(year(n), ordinal(n), 1)

RECURSIVE dayFrom(_, _, _)
dayFrom(y, ord, m) ==
    IF ord <= DaysInMonth(y, m) THEN ord
    ELSE dayFrom(y, ord - DaysInMonth(y, m), m + 1)

dayOfMonth(n) == dayFrom(year(n), ordinal(n), 1)

RECURSIVE daysBeforeMonth(_, _)
daysBeforeMonth(y, m) ==
    IF m = 1 THEN 0 ELSE daysBeforeMonth(y, m - 1) + DaysInMonth(y, m - 1)

from_ymd(y, m, d) == DaysBeforeYear(y) + daysBeforeMonth(y, m) + d

Weekdays == <<"Sun", "Mon", "Tue", "Wed", "Thu", "Fri", "Sat">>

weekday(n) == Weekdays[(n % 7) + 1]

\* the representable date range, scaled down to NumDays days around a
\* month boundary: a Friday in late January up to early February
MIN_DATE == from_ymd(FirstYear + 1, 1, 26)
MAX_DATE == MIN_DATE + NumDays - 1

Dates == MIN_DATE .. MAX_DATE

(* ------------------------- trait Business ----------------------------- *)

\* the implementer's predicate: the dates of the set H are bank holidays
is_holiday(H, d) == d \in H

is_weekend(H, d) == ~(weekday(d) = "Sat") /\ ~(weekday(d) = "Sun")

is_business_ignoring_holidays(H, d) == ~is_weekend(H, d)

is_business(H, d) == ~is_holiday(H, d) /\ ~is_weekend(H, d)

RECURSIVE followingLoop(_, _)
followingLoop(H, d) ==
    IF d < MAX_DATE
    THEN IF is_business(H, d + 1) THEN Some(d + 1) ELSE followingLoop(H, d + 1)
    ELSE None

following_unchecked(H, d) ==
    IF is_business(H, d) THEN Some(d)
    ELSE IF d < MAX_DATE THEN Some(d + 1) ELSE None

following(H, d) ==
    IF is_business(H, d) THEN Some(d) ELSE followingLoop(H, d)

\* the forward loop of modified_following: it only advances `day` to the
\* end of the month and never tests is_business; its result is overwritten
RECURSIVE mfForward(_, _)
mfForward(unadjusted, d) ==
    IF d < MAX_DATE /\ month(d) = month(unadjusted)
    THEN IF month(d + 1) /= month(unadjusted) THEN d + 1
         ELSE mfForward(unadjusted, d + 1)
    ELSE d

RECURSIVE backwardLoop(_, _)
backwardLoop(H, d) ==
    IF d > MIN_DATE
    THEN IF is_business(H, d - 1) THEN Some(d - 1) ELSE backwardLoop(H, d - 1)
    ELSE None

modified_following(H, d) ==
    IF is_business(H, d) THEN Some(d)
    ELSE LET unadjusted == d
             scanned == mfForward(unadjusted, d)
             \* `day = unadjusted;` discards what the forward loop reached
         IN  backwardLoop(H, unadjusted)

\* the loop of preceding is guarded by `day < MIN_DATE`; below MIN_DATE the
\* subtraction of a day leaves the representable range and panics
precedingLoop(H, d) == IF d < MIN_DATE THEN Panic ELSE None

preceding(H, d) ==
    IF is_business(H, d) THEN Some(d) ELSE precedingLoop(H, d)

\* the month-bounded backward loop of modified_preceding; "Break" when the
\* loop ends without returning
RECURSIVE mpBackward(_, _, _)
mpBackward(H, unadjusted, d) ==
    IF d > MIN_DATE
    THEN IF month(d - 1) /= month(unadjusted) THEN [tag |-> "Break"]
         ELSE IF is_business(H, d - 1) THEN Some(d - 1)
         ELSE mpBackward(H, unadjusted, d - 1)
    ELSE [tag |-> "Break"]

modified_preceding_unbounded(H, d) ==
    IF is_business(H, d) THEN Some(d)
    ELSE LET back == backwardLoop(H, d)
         IN  IF back.tag = "Some" THEN back ELSE followingLoop(H, d)

modified_preceding(H, d) ==
    IF is_business(H, d) THEN Some(d)
    ELSE LET back == mpBackward(H, d, d)
         IN  IF back.tag = "Some" THEN back ELSE followingLoop(H, d)

(* ------------------------------ Decimal ------------------------------- *)

RECURSIVE GCD(_, _)
GCD(a, b) == IF b = 0 THEN a ELSE GCD(b, a % b)

\* Decimal::new(n, 0) / Decimal::new(d, 0) for an i64 n = hi * 2^32 + lo:
\* the exact quotient, in lowest terms when n fits the model's integers
DecimalDiv(hi, lo, d) ==
    IF hi = 0
    THEN LET g == GCD(lo, d) IN [hi |-> 0, num |-> lo \div g, den |-> d \div g]
    ELSE [hi |-> hi, num |-> lo, den |-> d]

\* Decimal + Decimal (the += of act_act_isda), on exact rationals
DecimalAdd(a, b) ==
    LET l == (a.den \div GCD(a.den, b.den)) * b.den
    IN  DecimalDiv(0, a.num * (l \div a.den) + b.num * (l \div b.den), l)

(* ----------------------- day_count_fraction --------------------------- *)

act_360(s, e) ==
    IF s > e THEN None ELSE Some(DecimalDiv(0, e - s, THREE_SIXTY))

act_365f(s, e) ==
    IF s > e THEN None ELSE Some(DecimalDiv(0, e - s, NON_LEAP))

\* `while year < end.year() { dcf += 1; year += 1 }`: the dcf after the loop
RECURSIVE isdaLoop(_, _, _)
isdaLoop(dcf, y, endYear) ==
    IF y < endYear
    THEN isdaLoop(DecimalAdd(dcf, DecimalDiv(0, 1, 1)), y + 1, endYear)
    ELSE dcf

act_act_isda_no_leap(s, e) ==
    IF s > e THEN None
    ELSE IF year(s) = year(e)
    THEN Some(DecimalDiv(0, e - s, NON_LEAP))
    ELSE LET first == IF is_leap(year(s))
                      THEN DecimalDiv(0, 366 - ordinal(s), LEAP)
                      ELSE DecimalDiv(0, 365 - ordinal(s), NON_LEAP)
             dcf == isdaLoop(first, year(s) + 1, year(e))
             last == IF is_leap(year(e))
                     THEN DecimalDiv(0, ordinal(e), LEAP)
                     ELSE DecimalDiv(0, ordinal(e), NON_LEAP)
         IN  Some(DecimalAdd(dcf, last))

act_act_isda(s, e) ==
    IF s > e THEN None
    ELSE IF year(s) = year(e)
    THEN IF is_leap(year(s))
         THEN Some(DecimalDiv(0, e - s, LEAP))
         ELSE Some(DecimalDiv(0, e - s, NON_LEAP))
    ELSE LET first == IF is_leap(year(s))
                      THEN DecimalDiv(0, 366 - ordinal(s), LEAP)
                      ELSE DecimalDiv(0, 365 - ordinal(s), NON_LEAP)
             \* after the loop, year = end.year()
             dcf == isdaLoop(first, year(s) + 1, year(e))
             last == IF is_leap(year(e))
                     THEN DecimalDiv(0, ordinal(e), LEAP)
                     ELSE DecimalDiv(0, ordinal(e), NON_LEAP)
         IN  Some(DecimalAdd(dcf, last))

\* the body of act_act_isma is the early return alone: for start <= end it
\* ends without a value of the declared Option<Decimal>
act_act_isma(s, e) == IF s > e THEN None ELSE NoValue

\* the two ways a build treats u32 arithmetic overflow: "checked" panics
\* (overflow-checks on, the dev profile), "wrapping" wraps modulo 2^32
Builds == {"checked", "wrapping"}

\* a - b on u32 after widening by i64::from: the value is hi * 2^32 + lo
u32_sub(a, b) == [hi |-> IF a < b THEN 1 ELSE 0, lo |-> a - b]

d30_360(build, s, e) ==
    IF s > e THEN None
    ELSE LET start_day == IF dayOfMonth(s) = 31 THEN 30 ELSE dayOfMonth(s)
             end_day == IF dayOfMonth(e) = 31 /\ start_day = 30
                        THEN 30 ELSE dayOfMonth(e)
             years == year(e) - year(s)
             months == u32_sub(month(e), month(s))
             days == u32_sub(end_day, start_day)
         IN  IF build = "checked" /\ (months.hi = 1 \/ days.hi = 1)
             THEN Panic
             ELSE Some(DecimalDiv(months.hi * 30 + days.hi,
                                  years * 360 + months.lo * 30 + days.lo,
                                  360))

(* --------------------------- state machine ---------------------------- *)

\* calls of the Business trait's methods on a calendar with holiday set
\* `holidays`, for a date `day` of the representable range
InitCal ==
    /\ holidays \in SUBSET Dates
    /\ day \in Dates
    /\ start = MIN_DATE
    /\ end = MIN_DATE
    /\ fn = "none"
    /\ result = Pending

Call(name, value) ==
    /\ fn = "none"
    /\ fn' = name
    /\ result' = value
    /\ UNCHANGED <<holidays, day, start, end>>

IsWeekend == Call("is_weekend", Bool(is_weekend(holidays, day)))
IsBusiness == Call("is_business", Bool(is_business(holidays, day)))
Following == Call("following", following(holidays, day))
ModifiedFollowing == Call("modified_following", modified_following(holidays, day))
Preceding == Call("preceding", preceding(holidays, day))
ModifiedPreceding == Call("modified_preceding", modified_preceding(holidays, day))

NextCal ==
    \/ IsWeekend
    \/ IsBusiness
    \/ Following
    \/ ModifiedFollowing
    \/ Preceding
    \/ ModifiedPreceding

SpecCal == InitCal /\ [][NextCal]_vars

\* the days of month the day-count inputs are drawn from
SampleDays == {1, 28, 29, 30, 31}

DcfDates ==
    {n \in from_ymd(FirstYear, 1, 1) .. from_ymd(FirstYear + NumYears - 1, 12, 31) :
        dayOfMonth(n) \in SampleDays}

InitDcf ==
    /\ holidays = {}
    /\ day = MIN_DATE
    /\ start \in DcfDates
    /\ end \in DcfDates
    /\ fn = "none"
    /\ result = Pending

Act360 == Call("act_360", act_360(start, end))
Act365f == Call("act_365f", act_365f(start, end))
ActActIsda == Call("act_act_isda", act_act_isda(start, end))
ActActIsma == Call("act_act_isma", act_act_isma(start, end))
D30_360 == \E build \in Builds : Call("d30_360", d30_360(build, start, end))

NextDcf ==
    \/ Act360
    \/ Act365f
    \/ ActActIsda
    \/ ActActIsma
    \/ D30_360

SpecDcf == InitDcf /\ [][NextDcf]_vars

(* ------------------------------ claims -------------------------------- *)

Min(S) == CHOOSE x \in S : \A y \in S : x <= y
Max(S) == CHOOSE x \in S : \A y \in S : x >= y

BusinessAfter(H, d) == {x \in (d + 1) .. MAX_DATE : is_business(H, x)}
BusinessBefore(H, d) == {x \in MIN_DATE .. (d - 1) : is_business(H, x)}
SameCalendarMonth(x, d) == year(x) = year(d) /\ month(x) = month(d)

Rolling == {"following", "modified_following", "preceding", "modified_preceding"}
DayCounts == {"act_360", "act_365f", "act_act_isda", "act_act_isma", "d30_360"}

\* C1: the default is_weekend(d) is true exactly when d is a Saturday or a
\* Sunday, and with no holidays is_business(d) is true exactly on Monday to
\* Friday.
C1_WeekendIsSatSun ==
    /\ fn = "is_weekend" => (result.b <=> weekday(day) \in {"Sat", "Sun"})
    /\ (fn = "is_business" /\ holidays = {})
          => (result.b <=> weekday(day) \in {"Mon", "Tue", "Wed", "Thu", "Fri"})

\* C2: preceding(d) is d when d is a business day, otherwise the latest
\* business day strictly before d, and None only when there is none down to
\* the minimum date.
C2_PrecedingLatestBefore ==
    fn = "preceding" =>
        result = IF is_business(holidays, day) THEN Some(day)
                 ELSE IF BusinessBefore(holidays, day) /= {}
                 THEN Some(Max(BusinessBefore(holidays, day)))
                 ELSE None

\* C3: for a non-business d, modified_following(d) is the first business day
\* after d when one exists in d's calendar month; only otherwise the nearest
\* business day before d, or None when there is none down to the minimum date.
C3_ModifiedFollowingForwardFirst ==
    (fn = "modified_following" /\ ~is_business(holidays, day)) =>
        LET fwd == {x \in BusinessAfter(holidays, day) : SameCalendarMonth(x, day)}
        IN  result = IF fwd /= {} THEN Some(Min(fwd))
                     ELSE IF BusinessBefore(holidays, day) /= {}
                     THEN Some(Max(BusinessBefore(holidays, day)))
                     ELSE None

\* C4: following(d) is d when d is a business day, otherwise the earliest
\* business day strictly after d, and None only when there is none up to the
\* maximum date.
C4_FollowingEarliestAfter ==
    fn = "following" =>
        result = IF is_business(holidays, day) THEN Some(day)
                 ELSE IF BusinessAfter(holidays, day) /= {}
                 THEN Some(Min(BusinessAfter(holidays, day)))
                 ELSE None

\* a non-business date whose forward scan passed at least one more
\* non-business day before it found a business day
C4_Witness ==
    /\ fn = "following"
    /\ ~is_business(holidays, day)
    /\ result.tag = "Some"
    /\ result.val > day + 1

\* C5: for a non-business d, modified_preceding(d) is the latest business day
\* before d within d's calendar month if there is one, otherwise the earliest
\* business day after d (None when there is none up to the maximum date); it
\* never is a date before d of another month.
C5_ModifiedPrecedingMonthBounded ==
    (fn = "modified_preceding" /\ ~is_business(holidays, day)) =>
        LET back == {x \in BusinessBefore(holidays, day) : SameCalendarMonth(x, day)}
        IN  /\ result = IF back /= {} THEN Some(Max(back))
                        ELSE IF BusinessAfter(holidays, day) /= {}
                        THEN Some(Min(BusinessAfter(holidays, day)))
                        ELSE None
            /\ (result.tag = "Some" /\ result.val < day)
                  => SameCalendarMonth(result.val, day)

\* the fallback leg: business days exist before d, but only in the previous
\* month, and the result is a later date
C5_Witness ==
    /\ fn = "modified_preceding"
    /\ ~is_business(holidays, day)
    /\ BusinessBefore(holidays, day) /= {}
    /\ \A x \in BusinessBefore(holidays, day) : ~SameCalendarMonth(x, day)
    /\ result.tag = "Some"
    /\ result.val > day

\* C6: whenever following, modified_following, preceding or
\* modified_preceding returns a date r, r is neither a holiday nor a weekend
\* day of the calendar, that is is_business(r).
C6_ResultIsBusiness ==
    (fn \in Rolling /\ result.tag = "Some") =>
        /\ ~is_holiday(holidays, result.val)
        /\ ~is_weekend(holidays, result.val)
        /\ is_business(holidays, result.val)

\* a roll of a non-business date over a holiday to an adjusted date
C6_Witness ==
    /\ fn \in Rolling
    /\ ~is_business(holidays, day)
    /\ result.tag = "Some"
    /\ result.val /= day
    /\ \E h \in holidays : (h < day /\ result.val < h) \/ (day < h /\ h < result.val)

\* C7: for start <= end, d30_360(start, end) returns
\* (360*(end.year - start.year) + 30*(end.month - start.month)
\*  + (end_day - start_day)) / 360 with the clamped days, without a crash or
\* a wrap-around, also when end.month < start.month or end_day < start_day.
C7_D30_360Formula ==
    (fn = "d30_360" /\ start <= end) =>
        LET start_day == IF dayOfMonth(start) = 31 THEN 30 ELSE dayOfMonth(start)
            end_day == IF dayOfMonth(end) = 31 /\ start_day = 30
                       THEN 30 ELSE dayOfMonth(end)
        IN  result = Some(DecimalDiv(0,
                        360 * (year(end) - year(start))
                        + 30 * (month(end) - month(start))
                        + (end_day - start_day), 360))

\* length of calendar year y in days
YearLen(y) == IF is_leap(y) THEN 366 ELSE 365

\* first day of calendar year y
Jan1(y) == DaysBeforeYear(y) + 1

\* the sum over the years y .. last of (days of [s, e) within the year) / (its length)
RECURSIVE ActualOverYears(_, _, _, _)
ActualOverYears(s, e, y, last) ==
    LET from == IF s > Jan1(y) THEN s ELSE Jan1(y)
        to == IF e < Jan1(y + 1) THEN e ELSE Jan1(y + 1)
        piece == DecimalDiv(0, to - from, YearLen(y))
    IN  IF y = last THEN piece
        ELSE DecimalAdd(piece, ActualOverYears(s, e, y + 1, last))

\* C8: for start <= end in different calendar years, act_act_isda(start, end)
\* is the sum over the years touched of the actual days of the interval in
\* the year over the year's length; act_act_isda(2023-12-01, 2024-02-01) is
\* 31/365 + 31/366.
C8_IsdaActualDays ==
    (fn = "act_act_isda" /\ start <= end /\ year(start) /= year(end)) =>
        result = Some(ActualOverYears(start, end, year(start), year(end)))

\* C9: for start < mid < end with mid a 1 January,
\* act_act_isda(start, end) = act_act_isda(start, mid) + act_act_isda(mid, end)
\* as exact rationals.
C9_IsdaPartition ==
    fn = "act_act_isda" =>
        \A mid \in DcfDates :
            (start < mid /\ mid < end /\ ordinal(mid) = 1) =>
                /\ result.tag = "Some"
                /\ result.val = DecimalAdd(act_act_isda(start, mid).val,
                                           act_act_isda(mid, end).val)

\* an interval over a full calendar year, split at the 1 January of the leap
\* year of the range, with neither end on a year boundary
C9_Witness ==
    /\ fn = "act_act_isda"
    /\ year(end) > year(start) + 1
    /\ ordinal(start) > 1
    /\ ordinal(end) > 1
    /\ \E mid \in DcfDates :
          /\ start < mid /\ mid < end /\ ordinal(mid) = 1
          /\ is_leap(year(mid))
          /\ result = Some(DecimalAdd(act_act_isda(start, mid).val,
                                      act_act_isda(mid, end).val))

\* C10: every day-count function returns None when start > end and a
\* fraction when start <= end, without a crash.
C10_NoneIffInverted ==
    fn \in DayCounts =>
        /\ start > end => result = None
        /\ start <= end => (result.tag = "Some" /\ result.val.hi = 0)

====
